---- MODULE Spec2Model ----
(***************************************************************************)
(* gaslight: a store-and-forward relay.  The serving process captures      *)
(* requests into the sqlite table `requests`; `push` (cmd_push) replays    *)
(* them in rowid order and deletes each row after a 2xx response.          *)
(*                                                                         *)
(* Strings are sequences of tokens; the characters the code inspects       *)
(* (':' for partition, '/' for rstrip, the url scheme) are tokens of their *)
(* own.  Fields named h_* and the variables captured, acked, removed,      *)
(* tried, passes and prevHalt are history: the code never reads them.      *)
(***************************************************************************)
EXTENDS Integers, Sequences, FiniteSets, TLC

\* ---- bounds of the model -------------------------------------------------
MaxCaptures == 3
MaxPasses == 3

\* ---- the push processes --------------------------------------------------
Procs == {1, 2}
\* Spec runs one `push` invocation at a time
SeqProcs == {1}

\* ---- values ----------------------------------------------------------------
\* Python's None, for endpoints.get() and for `failure`
None == <<"<None>">>

\* bool(x) of an optional string
Truthy(x) == x # None /\ x # <<>>

\* argparse defaults of `push`, and the values an operator passes instead
DefaultGraphEndpoint == <<"https", ":", "/", "/", "pub.highlight.io">>
DefaultOtlpEndpoint == <<"https", ":", "/", "/", "otel.highlight.io">>
GraphEndpoints == {DefaultGraphEndpoint, <<>>}
OtlpEndpoints == {DefaultOtlpEndpoint, DefaultOtlpEndpoint \o <<"/">>}

\* path parameter of /otel/v1/{signal}
Signals == {<<"traces">>, <<"logs">>}

\* request bodies after request.json(): a JSON object is a sequence of
\* <<key, string value>> members
MutationDoc == << <<"query", <<"mutation", " ", "m">> >> >>
UpperMutationDoc == << <<"query", <<"MUTATION", " ", "m">> >> >>
QueryDoc == << <<"query", <<"query", " ", "q">> >> >>
NoQueryDoc == << <<"operationName", <<"pushMetrics">> >> >>
GraphqlBodies == {MutationDoc, UpperMutationDoc, QueryDoc, NoQueryDoc}
SpanDoc == << <<"resourceSpans", <<"s">> >> >>
OtlpBodies == {SpanDoc}

\* what urlopen() does for one request: a response with a status code, or
\* URLError (HTTPError included) with a reason
Codes == {199, 200, 299, 300}
Reasons == {"Connection refused"}

\* ---- helpers ---------------------------------------------------------------
Max(S) == CHOOSE x \in S : \A y \in S : y <= x

Last(s) == s[Len(s)]

\* json.dumps(obj).encode() for an object of string members
RECURSIVE DumpMembers(_)
DumpMembers(members) ==
    IF members = <<>> THEN <<>>
    ELSE LET m == Head(members)
             one == <<"\"", m[1], "\"", ": ", "\"">> \o m[2] \o <<"\"">>
         IN IF Len(members) = 1 THEN one
            ELSE one \o <<", ">> \o DumpMembers(Tail(members))

JsonDumps(obj) == <<"{">> \o DumpMembers(obj) \o <<"}">>

\* dict.get(key, default) on a JSON object
RECURSIVE DictGet(_, _, _)
DictGet(obj, key, default) ==
    IF obj = <<>> THEN default
    ELSE IF Head(obj)[1] = key THEN Head(obj)[2]
    ELSE DictGet(Tail(obj), key, default)

\* str.lower(), token by token
LowerToken(t) ==
    IF t \in {"MUTATION", "Mutation"} THEN "mutation"
    ELSE IF t \in {"QUERY", "Query"} THEN "query"
    ELSE t

Lower(s) == [k \in 1..Len(s) |-> LowerToken(s[k])]

\* str.startswith(prefix)
StartsWith(s, prefix) ==
    /\ Len(s) >= Len(prefix)
    /\ SubSeq(s, 1, Len(prefix)) = prefix

\* str.partition(sep): <<head, sep, tail>> at the first sep, or <<s, '', ''>>
Partition(s, sep) ==
    LET hits == {k \in 1..Len(s) : s[k] = sep}
    IN IF hits = {} THEN <<s, <<>>, <<>>>>
       ELSE LET k == CHOOSE h \in hits : \A g \in hits : h <= g
            IN <<SubSeq(s, 1, k - 1), <<sep>>, SubSeq(s, k + 1, Len(s))>>

\* mutant: only one trailing '/' is removed
RStripSlash_once(s) ==
    IF s # <<>> /\ Last(s) = "/" THEN SubSeq(s, 1, Len(s) - 1) ELSE s

\* str.rstrip('/')
RECURSIVE RStripSlash(_)
RStripSlash(s) ==
    IF s # <<>> /\ Last(s) = "/" THEN RStripSlash(SubSeq(s, 1, Len(s) - 1))
    ELSE s

\* ---- the store -------------------------------------------------------------
\* mutant: ORDER BY rowid DESC
RECURSIVE OrderByRowidDesc(_)
OrderByRowidDesc(tbl) ==
    IF tbl = {} THEN <<>>
    ELSE LET first == CHOOSE r \in tbl : \A q \in tbl : r.rowid >= q.rowid
         IN <<first>> \o OrderByRowidDesc(tbl \ {first})

\* SELECT rowid, destination, request FROM requests ORDER BY rowid ASC
RECURSIVE OrderByRowidAsc(_)
OrderByRowidAsc(tbl) ==
    IF tbl = {} THEN <<>>
    ELSE LET first == CHOOSE r \in tbl : \A q \in tbl : r.rowid <= q.rowid
         IN <<first>> \o OrderByRowidAsc(tbl \ {first})

\* mutant: the rowid is the number of rows plus one
NextRowid_count(tbl) == Cardinality(tbl) + 1

\* the rowid sqlite gives an INSERT into a table without AUTOINCREMENT:
\* one more than the largest rowid in the table, 1 for an empty table
NextRowid(tbl) ==
    IF tbl = {} THEN 1 ELSE Max({r.rowid : r \in tbl}) + 1

\* INSERT INTO requests(destination, request) VALUES (?, ?)
InsertRow(tbl, dest, blob, uid) ==
    tbl \cup {[rowid |-> NextRowid(tbl), destination |-> dest,
               request |-> blob, h_uid |-> uid]}

\* mutant: DELETE FROM requests, the WHERE clause forgotten
DeleteRow_all(tbl, rowid) == {}

\* mutant: the DELETE is never committed
DeleteRow_noop(tbl, rowid) == tbl

\* mutant: DELETE FROM requests WHERE rowid >= ?
DeleteRow_from(tbl, rowid) == {r \in tbl : r.rowid < rowid}

\* DELETE FROM requests WHERE rowid = ?
DeleteRow(tbl, rowid) == {r \in tbl : r.rowid # rowid}

\* history: the h_uid of each row of a sequence
Uids(rs) == [k \in 1..Len(rs) |-> rs[k].h_uid]

\* the bytes save_to_db stores for a value
ToBlob(isBytes, value) == IF isBytes THEN value ELSE JsonDumps(value)

\* ---- endpoint expansion of cmd_push ------------------------------------------
\* endpoints.get(endkind)
EndpointsGet(endpoints, endkind) ==
    IF endkind = <<"gql">> THEN endpoints.gql
    ELSE IF endkind = <<"otel">> THEN endpoints.otel
    ELSE None

\* lines 160-163: the url handed to urllib.request.Request
Expand(endpoints, dest) ==
    LET parts == Partition(dest, ":")
        endkind == parts[1]
        endpath == parts[3]
        endpoint == EndpointsGet(endpoints, endkind)
    IN IF Truthy(endpoint) /\ Truthy(endpath)
       THEN RStripSlash(endpoint) \o endpath
       ELSE endpoint

\* urllib.request.Request(url, ...) raises ValueError("unknown url type")
\* unless the url starts with "<scheme>:"
RequestAccepts(url) ==
    /\ Len(url) >= 2
    /\ url[1] \notin {":", "/"}
    /\ url[2] = ":"

\* mutant: code < 300
IsSuccess_lax(code) == code < 300

\* 200 <= code < 300
IsSuccess(code) == 200 <= code /\ code < 300

\* ---- state -------------------------------------------------------------------
VARIABLES
    requests,   \* the table: a set of rows keyed by rowid
    pc,         \* position of each push process
    args,       \* its endpoints dict
    rows,       \* c.fetchall()
    idx,        \* position of the for loop in rows
    failure,    \* None or <<rowid, reason>>
    processed,  \* the counter
    out,        \* what the process printed
    status,     \* exit status, -1 while it has none
    inflight,   \* requests handed to urlopen that have not returned
    captured,   \* history: every row ever inserted, in insertion order
    acked,      \* history: the deliveries that got a 2xx: entry and body sent
    removed,    \* history: h_uid of the rows deleted, in deletion order
    tried,      \* history: the entries each pass called urlopen for, with
                \* what came back ("pending", "2xx" or "failed")
    passes,     \* history: number of passes started
    prevRest,   \* history: entries the last finished pass left from its
                \* failing entry onward (empty unless it halted), and the
                \* number of captures made when it took its snapshot
    snapAt,     \* history: number of captures made when each pass enumerated
    srv,        \* the last request the serving process answered, and its
                \* response
    healedAt    \* environment: -1, or the number of passes started when
                \* captures stopped and every delivery began to succeed

vars == <<requests, pc, args, rows, idx, failure, processed, out, status,
          inflight, captured, acked, removed, tried, passes, prevRest,
          snapAt, srv, healedAt>>

procVars == <<pc, args, rows, idx, failure, processed, out, status, tried,
              snapAt>>

\* no request answered yet
NoExchange == [method |-> "", path |-> <<>>, origin |-> None,
               acrm |-> None, cors_origin |-> <<>>, json_ok |-> FALSE,
               body |-> <<>>, status |-> 0, stored |-> 0]

Running == {"loop", "urlopen", "delete", "report"}
Ended == {"idle", "succeeded", "halted", "crashed"}

NoArgs == [gql |-> <<>>, otel |-> <<>>]

Init ==
    /\ requests = {}
    /\ pc = [p \in Procs |-> "idle"]
    /\ args = [p \in Procs |-> NoArgs]
    /\ rows = [p \in Procs |-> <<>>]
    /\ idx = [p \in Procs |-> 1]
    /\ failure = [p \in Procs |-> None]
    /\ processed = [p \in Procs |-> 0]
    /\ out = [p \in Procs |-> <<>>]
    /\ status = [p \in Procs |-> -1]
    /\ inflight = {}
    /\ captured = <<>>
    /\ acked = {}
    /\ removed = <<>>
    /\ tried = [p \in Procs |-> <<>>]
    /\ passes = 0
    /\ prevRest = [rest |-> <<>>, count |-> 0]
    /\ snapAt = [p \in Procs |-> 0]
    /\ srv = NoExchange
    /\ healedAt = -1

\* ---- capture -------------------------------------------------------------------
\* save_to_db(dest, blob): insert one row and commit
save_to_db(dest, isBytes, value) ==
    LET blob == ToBlob(isBytes, value)
        uid == Len(captured) + 1
    IN /\ requests' = InsertRow(requests, dest, blob, uid)
       /\ captured' = Append(captured,
                             [rowid |-> NextRowid(requests),
                              destination |-> dest, request |-> blob])

\* mutant: the comparison keeps the case of the query
IsMutation_cased(payload) ==
    StartsWith(DictGet(payload, "query", <<>>), <<"mutation", " ">>)

\* the guard of line 93
IsMutation(payload) ==
    StartsWith(Lower(DictGet(payload, "query", <<>>)), <<"mutation", " ">>)

\* POST /public
graphql_request(payload) ==
    /\ Len(captured) < MaxCaptures
    /\ IF IsMutation(payload)
       THEN save_to_db(<<"gql">>, FALSE, payload)
       ELSE UNCHANGED <<requests, captured>>
    /\ UNCHANGED <<procVars, inflight, acked, removed, passes, prevRest>>
    /\ UNCHANGED healedAt

\* POST /otel/v1/{signal}
otlp_request(signal, payload) ==
    /\ Len(captured) < MaxCaptures
    /\ save_to_db(<<"otel", ":", "/", "v1", "/">> \o signal, FALSE, payload)
    /\ UNCHANGED <<procVars, inflight, acked, removed, passes, prevRest>>
    /\ UNCHANGED healedAt

\* ---- the serving process --------------------------------------------------------
\* str.split(';'): the pieces between the ';' tokens
RECURSIVE Split(_)
Split(s) ==
    LET parts == Partition(s, ";")
    IN IF parts[2] = <<>> THEN <<s>>
       ELSE <<parts[1]>> \o Split(parts[3])

\* x in list
InList(x, list) == \E k \in 1..Len(list) : list[k] = x

\* values of the Origin and Access-Control-Request-Method headers (None
\* when absent) and of the CORS_ORIGIN variable ('*' when unset)
Origins == {None, <<"a">>, <<"evil">>}
Acrms == {None, <<"POST">>}
CorsOrigins == {<<"*">>, <<"a", ";", "b">>}
Methods == {"POST", "OPTIONS"}
Paths == {<<"public">>} \cup {<<"otel", "v1">> \o signal : signal \in Signals}

\* the bodies a client posts to a path
BodiesFor(pa) == IF pa = <<"public">> THEN GraphqlBodies ELSE OtlpBodies

\* a body of the path that its handler stores
StoredBodyFor(pa) == IF pa = <<"public">> THEN MutationDoc ELSE SpanDoc

\* the requests a client may send: every combination of method, headers
\* and CORS_ORIGIN with a body the handler stores, and for a POST from
\* origin 'a' every body: one request.json() parses to a document, or one
\* it cannot parse
HttpRequests ==
    {[method |-> m, path |-> pa, origin |-> o, acrm |-> a,
      cors_origin |-> c, json_ok |-> TRUE, body |-> StoredBodyFor(pa)] :
        m \in Methods, pa \in Paths, o \in Origins, a \in Acrms,
        c \in CorsOrigins}
    \cup
    UNION {{[method |-> "POST", path |-> pa, origin |-> <<"a">>,
             acrm |-> None, cors_origin |-> c, json_ok |-> j, body |-> b] :
               c \in CorsOrigins, j \in BOOLEAN, b \in BodiesFor(pa)} :
           pa \in Paths}

\* lines 46-50
IsCorsPreflight(req) ==
    /\ req.method = "OPTIONS"
    /\ req.origin # None
    /\ req.acrm # None

\* mutant: the wildcard list is compared like any other list
DisallowedOrigin_noWildcard(req) ==
    LET allowed_origins == Split(req.cors_origin)
    IN ~ InList(req.origin, allowed_origins)

\* lines 53-54
DisallowedOrigin(req) ==
    LET allowed_origins == Split(req.cors_origin)
    IN /\ allowed_origins # << <<"*">> >>
       /\ ~ InList(req.origin, allowed_origins)

\* the route call_next finds: the two handlers are registered for POST
Route(req) ==
    IF req.method # "POST" THEN "none"
    ELSE IF req.path = <<"public">> THEN "graphql"
    ELSE IF Len(req.path) = 3 /\ SubSeq(req.path, 1, 2) = <<"otel", "v1">>
         THEN "otlp"
    ELSE "none"

\* the handler of the request gets to its save_to_db call
CallsSave(req) ==
    /\ ~ DisallowedOrigin(req)
    /\ ~ IsCorsPreflight(req)
    /\ req.json_ok
    /\ \/ Route(req) = "otlp"
       \/ Route(req) = "graphql" /\ IsMutation(req.body)

\* the exchange recorded for a request
Exchange(req, status_code, stored_uid) ==
    [method |-> req.method, path |-> req.path, origin |-> req.origin,
     acrm |-> req.acrm, cors_origin |-> req.cors_origin,
     json_ok |-> req.json_ok, body |-> req.body,
     status |-> status_code, stored |-> stored_uid]

\* everything but the table, the capture log and the exchange
notServed == <<procVars, inflight, acked, removed, passes, prevRest,
               healedAt>>

\* lines 42-83 with the handler call_next reaches: the middleware rejects
\* the request (400), answers a preflight itself (200), or passes it on;
\* an unrouted request gets 405, an exception of request.json() 500
permissive_cors(req) ==
    IF DisallowedOrigin(req)
    THEN /\ srv' = Exchange(req, 400, 0)
         /\ UNCHANGED <<requests, captured, notServed>>
    ELSE IF IsCorsPreflight(req)
    THEN /\ srv' = Exchange(req, 200, 0)
         /\ UNCHANGED <<requests, captured, notServed>>
    ELSE IF Route(req) = "none"
    THEN /\ srv' = Exchange(req, 405, 0)
         /\ UNCHANGED <<requests, captured, notServed>>
    ELSE IF ~ req.json_ok
    THEN /\ srv' = Exchange(req, 500, 0)
         /\ UNCHANGED <<requests, captured, notServed>>
    ELSE /\ IF Route(req) = "graphql"
            THEN graphql_request(req.body)
            ELSE otlp_request(SubSeq(req.path, 3, 3), req.body)
         /\ srv' = Exchange(req, 200,
                       IF captured' # captured THEN Len(captured') ELSE 0)

\* mutant: the handler catches the exception and answers as usual
StorageFault_swallowed(req) ==
    /\ CallsSave(req)
    /\ srv' = Exchange(req, 200, 0)
    /\ UNCHANGED <<requests, captured, notServed>>

\* lines 29-33 raising: db.execute or db.commit fails, nothing is
\* committed, the exception leaves save_to_db, the handler and the
\* middleware, and the server answers 500
StorageFault(req) ==
    /\ CallsSave(req)
    /\ srv' = Exchange(req, 500, 0)
    /\ UNCHANGED <<requests, captured, notServed>>

\* ---- cmd_push --------------------------------------------------------------------
\* lines 145-157: a `push` invocation starts, builds endpoints, enumerates
Enumerate(p, graph_endpoint, otlp_endpoint) ==
    /\ pc[p] \in Ended
    /\ passes < MaxPasses
    /\ pc' = [pc EXCEPT ![p] = "loop"]
    /\ args' = [args EXCEPT ![p] = [gql |-> graph_endpoint,
                                    otel |-> otlp_endpoint]]
    /\ rows' = [rows EXCEPT ![p] = OrderByRowidAsc(requests)]
    /\ idx' = [idx EXCEPT ![p] = 1]
    /\ failure' = [failure EXCEPT ![p] = None]
    /\ processed' = [processed EXCEPT ![p] = 0]
    /\ out' = [out EXCEPT ![p] = <<>>]
    /\ status' = [status EXCEPT ![p] = -1]
    /\ tried' = [tried EXCEPT ![p] = <<>>]
    /\ passes' = passes + 1
    /\ UNCHANGED <<requests, inflight, captured, acked, removed, prevRest>>
    /\ snapAt' = [snapAt EXCEPT ![p] = Len(captured)]
    /\ UNCHANGED <<srv, healedAt>>

\* lines 158-173: next row, expand its endpoint, build the request and call
\* urlopen; the loop ends when the rows are exhausted; a ValueError of
\* Request() is raised outside the try and ends the process
Forward(p) ==
    /\ pc[p] = "loop"
    /\ IF idx[p] > Len(rows[p])
       THEN /\ pc' = [pc EXCEPT ![p] = "report"]
            /\ UNCHANGED <<inflight, tried, out, status, prevRest>>
       ELSE LET row == rows[p][idx[p]]
                endpoint == Expand(args[p], row.destination)
            IN IF RequestAccepts(endpoint)
               THEN /\ inflight' = inflight \cup
                          {[proc |-> p, url |-> endpoint,
                            data |-> row.request, h_uid |-> row.h_uid]}
                    /\ tried' = [tried EXCEPT ![p] =
                          Append(@, [h_uid |-> row.h_uid,
                                     result |-> "pending"])]
                    /\ pc' = [pc EXCEPT ![p] = "urlopen"]
                    /\ UNCHANGED <<out, status, prevRest>>
               ELSE /\ pc' = [pc EXCEPT ![p] = "crashed"]
                    /\ out' = [out EXCEPT ![p] =
                          Append(@, [stream |-> "stderr", kind |-> "traceback",
                                     n |-> 0, rowid |-> row.rowid,
                                     reason |-> <<"ValueError">>])]
                    /\ status' = [status EXCEPT ![p] = 1]
                    /\ prevRest' = [rest |-> <<>>, count |-> Len(captured)]
                    /\ UNCHANGED <<inflight, tried>>
    /\ UNCHANGED <<requests, args, rows, idx, failure, processed,
                   captured, acked, removed, passes>>
    /\ UNCHANGED <<snapAt, srv, healedAt>>

\* lines 173-184: urlopen returns a response with status `code`
Respond(p, code) ==
    /\ pc[p] = "urlopen"
    /\ \E req \in inflight :
         /\ req.proc = p
         /\ inflight' = inflight \ {req}
         /\ acked' = IF code \div 100 = 2
                     THEN acked \cup {[h_uid |-> req.h_uid,
                                       data |-> req.data]}
                     ELSE acked
    /\ tried' = [tried EXCEPT ![p][Len(tried[p])].result =
                     IF code \div 100 = 2 THEN "2xx" ELSE "failed"]
    /\ IF IsSuccess(code)
       THEN /\ processed' = [processed EXCEPT ![p] = @ + 1]
            /\ pc' = [pc EXCEPT ![p] = "delete"]
            /\ UNCHANGED failure
       ELSE /\ failure' = [failure EXCEPT ![p] =
                  <<rows[p][idx[p]].rowid, <<"HTTP error", code>> >>]
            /\ pc' = [pc EXCEPT ![p] = "report"]
            /\ UNCHANGED processed
    /\ UNCHANGED <<requests, args, rows, idx, out, status, captured,
                   removed, passes, prevRest>>
    /\ UNCHANGED <<snapAt, srv, healedAt>>

\* mutant: `continue` in place of `break` in the except clause
RaiseURLError_continue(p, reason) ==
    /\ pc[p] = "urlopen"
    /\ \E req \in inflight :
         /\ req.proc = p
         /\ inflight' = inflight \ {req}
    /\ failure' = [failure EXCEPT ![p] =
           <<rows[p][idx[p]].rowid, <<reason>> >>]
    /\ tried' = [tried EXCEPT ![p][Len(tried[p])].result = "failed"]
    /\ idx' = [idx EXCEPT ![p] = @ + 1]
    /\ pc' = [pc EXCEPT ![p] = "loop"]
    /\ UNCHANGED <<requests, args, rows, processed, out, status,
                   captured, acked, removed, passes, prevRest>>
    /\ UNCHANGED <<snapAt, srv, healedAt>>

\* mutant: the row is deleted in the except clause as well
RaiseURLError_delete(p, reason) ==
    /\ pc[p] = "urlopen"
    /\ \E req \in inflight :
         /\ req.proc = p
         /\ inflight' = inflight \ {req}
    /\ failure' = [failure EXCEPT ![p] =
           <<rows[p][idx[p]].rowid, <<reason>> >>]
    /\ tried' = [tried EXCEPT ![p][Len(tried[p])].result = "failed"]
    /\ requests' = DeleteRow(requests, rows[p][idx[p]].rowid)
    /\ removed' = removed \o
           Uids(OrderByRowidAsc({r \in requests :
                                    r.rowid = rows[p][idx[p]].rowid}))
    /\ pc' = [pc EXCEPT ![p] = "report"]
    /\ UNCHANGED <<args, rows, idx, processed, out, status,
                   captured, acked, passes, prevRest>>
    /\ UNCHANGED <<snapAt, srv, healedAt>>

\* mutant: the except clause tries the same row again
RaiseURLError_retry(p, reason) ==
    /\ pc[p] = "urlopen"
    /\ \E req \in inflight :
         /\ req.proc = p
         /\ inflight' = inflight \ {req}
    /\ tried' = [tried EXCEPT ![p][Len(tried[p])].result = "failed"]
    /\ pc' = [pc EXCEPT ![p] = "loop"]
    /\ UNCHANGED <<requests, args, rows, idx, failure, processed, out,
                   status, captured, acked, removed, passes, prevRest>>
    /\ UNCHANGED <<snapAt, srv, healedAt>>

\* lines 185-187: urlopen raises URLError
RaiseURLError(p, reason) ==
    /\ pc[p] = "urlopen"
    /\ \E req \in inflight :
         /\ req.proc = p
         /\ inflight' = inflight \ {req}
    /\ failure' = [failure EXCEPT ![p] =
           <<rows[p][idx[p]].rowid, <<reason>> >>]
    /\ tried' = [tried EXCEPT ![p][Len(tried[p])].result = "failed"]
    /\ pc' = [pc EXCEPT ![p] = "report"]
    /\ UNCHANGED <<requests, args, rows, idx, processed, out, status,
                   captured, acked, removed, passes, prevRest>>
    /\ UNCHANGED <<snapAt, srv, healedAt>>

\* lines 179-181: delete the row of the entry just pushed, commit, go on
DeleteDelivered(p) ==
    /\ pc[p] = "delete"
    /\ LET rowid == rows[p][idx[p]].rowid
       IN /\ requests' = DeleteRow(requests, rowid)
          /\ removed' = removed \o
                 Uids(OrderByRowidAsc({r \in requests : r.rowid = rowid}))
    /\ idx' = [idx EXCEPT ![p] = @ + 1]
    /\ pc' = [pc EXCEPT ![p] = "loop"]
    /\ UNCHANGED <<args, rows, failure, processed, out, status, inflight,
                   captured, acked, tried, passes, prevRest>>
    /\ UNCHANGED <<snapAt, srv, healedAt>>

\* mutant: a pass that pushed nothing exits with status 1
Report_nothingPushed(p) ==
    /\ pc[p] = "report"
    /\ LET pushed == [stream |-> "stdout", kind |-> "pushed",
                      n |-> processed[p], rowid |-> 0, reason |-> <<>>]
       IN IF failure[p] # None \/ processed[p] = 0
          THEN /\ out' = [out EXCEPT ![p] = Append(@, pushed)]
               /\ status' = [status EXCEPT ![p] = 1]
               /\ pc' = [pc EXCEPT ![p] = "halted"]
               /\ prevRest' =
                     [rest |-> [k \in 1..(Len(rows[p]) - idx[p] + 1) |->
                                   rows[p][idx[p] + k - 1].h_uid],
                      count |-> Len(captured)]
          ELSE /\ out' = [out EXCEPT ![p] = Append(@, pushed)]
               /\ status' = [status EXCEPT ![p] = 0]
               /\ pc' = [pc EXCEPT ![p] = "succeeded"]
               /\ prevRest' = [rest |-> <<>>, count |-> Len(captured)]
    /\ UNCHANGED <<requests, args, rows, idx, failure, processed, inflight,
                   captured, acked, removed, tried, passes>>
    /\ UNCHANGED <<snapAt, srv, healedAt>>

\* lines 189-196: print the count; on a failure print it and exit(1)
Report(p) ==
    /\ pc[p] = "report"
    /\ LET pushed == [stream |-> "stdout", kind |-> "pushed",
                      n |-> processed[p], rowid |-> 0, reason |-> <<>>]
       IN IF failure[p] # None
          THEN /\ out' = [out EXCEPT ![p] = @ \o
                     <<pushed, [stream |-> "stderr", kind |-> "failed",
                                n |-> 0, rowid |-> failure[p][1],
                                reason |-> failure[p][2]]>>]
               /\ status' = [status EXCEPT ![p] = 1]
               /\ pc' = [pc EXCEPT ![p] = "halted"]
               /\ prevRest' =
                     [rest |-> [k \in 1..(Len(rows[p]) - idx[p] + 1) |->
                                   rows[p][idx[p] + k - 1].h_uid],
                      count |-> Len(captured)]
          ELSE /\ out' = [out EXCEPT ![p] = Append(@, pushed)]
               /\ status' = [status EXCEPT ![p] = 0]
               /\ pc' = [pc EXCEPT ![p] = "succeeded"]
               /\ prevRest' = [rest |-> <<>>, count |-> Len(captured)]
    /\ UNCHANGED <<requests, args, rows, idx, failure, processed, inflight,
                   captured, acked, removed, tried, passes>>
    /\ UNCHANGED <<snapAt, srv, healedAt>>

\* ---- specification: captures and passes one after another ------------------------
NoPassRunning == \A p \in Procs : pc[p] \in Ended

Capture ==
    /\ NoPassRunning
    /\ UNCHANGED srv
    /\ \/ \E payload \in GraphqlBodies : graphql_request(payload)
       \/ \E signal \in Signals, payload \in OtlpBodies :
              otlp_request(signal, payload)

Push(p) ==
    \/ \E g \in GraphEndpoints, o \in OtlpEndpoints :
           NoPassRunning /\ Enumerate(p, g, o)
    \/ Forward(p)
    \/ \E code \in Codes : Respond(p, code)
    \/ \E reason \in Reasons : RaiseURLError(p, reason)
    \/ DeleteDelivered(p)
    \/ Report(p)

Next ==
    \/ Capture
    \/ \E p \in SeqProcs : Push(p)

Spec == Init /\ [][Next]_vars

\* ---- specification: captures arrive while a pass runs -------------------------------
CaptureAnytime ==
    /\ UNCHANGED srv
    /\ \/ \E payload \in GraphqlBodies : graphql_request(payload)
       \/ \E signal \in Signals, payload \in OtlpBodies :
              otlp_request(signal, payload)

NextInterleaved ==
    \/ CaptureAnytime
    \/ \E p \in SeqProcs : Push(p)

SpecInterleaved == Init /\ [][NextInterleaved]_vars

\* ---- specification: the serving process alone ---------------------------------------
NextServe ==
    \/ \E req \in HttpRequests : permissive_cors(req)
    \/ \E req \in HttpRequests : StorageFault(req)

SpecServe == Init /\ [][NextServe]_vars

\* a step of a running pass; urlopen is a blocking call that returns
PassStep(p) ==
    \/ Forward(p)
    \/ \E code \in Codes : Respond(p, code)
    \/ \E reason \in Reasons : RaiseURLError(p, reason)
    \/ DeleteDelivered(p)
    \/ Report(p)

\* ---- specification: one pass at a time under fair scheduling ------------------------
\* the requests and answers of this specification: a sample of the above
TerminateCodes == {200, 300}

CaptureSome ==
    /\ UNCHANGED srv
    /\ \/ \E payload \in {MutationDoc, QueryDoc} : graphql_request(payload)
       \/ otlp_request(<<"traces">>, SpanDoc)

PushSome(p) ==
    \/ \E g \in GraphEndpoints :
           NoPassRunning /\ Enumerate(p, g, DefaultOtlpEndpoint)
    \/ Forward(p)
    \/ \E code \in TerminateCodes : Respond(p, code)
    \/ \E reason \in Reasons : RaiseURLError(p, reason)
    \/ DeleteDelivered(p)
    \/ Report(p)

NextTerminate ==
    \/ CaptureSome
    \/ \E p \in SeqProcs : PushSome(p)

SpecTerminate ==
    /\ Init
    /\ [][NextTerminate]_vars
    /\ \A p \in SeqProcs : WF_vars(PassStep(p))

\* ---- specification: two push processes and the serving process ---------------------
\* each enumerate, urlopen, delete and insert is a step of its own
PushConcurrent(p) ==
    \/ Enumerate(p, DefaultGraphEndpoint, DefaultOtlpEndpoint)
    \/ Forward(p)
    \/ \E code \in TerminateCodes : Respond(p, code)
    \/ \E reason \in Reasons : RaiseURLError(p, reason)
    \/ DeleteDelivered(p)
    \/ Report(p)

NextConcurrent ==
    \/ CaptureSome
    \/ \E p \in Procs : PushConcurrent(p)

SpecConcurrent == Init /\ [][NextConcurrent]_vars

\* ---- specification: the backend recovers and captures stop -------------------------
\* from this step on no request is captured and every urlopen gets a 200;
\* a pass can still be started afterwards
Heal ==
    /\ healedAt = -1
    /\ passes < MaxPasses
    /\ healedAt' = passes
    /\ UNCHANGED <<requests, captured, procVars, inflight, acked, removed,
                   passes, prevRest, srv>>

PushDrain(p) ==
    \/ \E g \in GraphEndpoints :
           NoPassRunning /\ Enumerate(p, g, DefaultOtlpEndpoint)
    \/ Forward(p)
    \/ Respond(p, 200)
    \/ healedAt = -1 /\ Respond(p, 300)
    \/ healedAt = -1 /\ \E reason \in Reasons : RaiseURLError(p, reason)
    \/ DeleteDelivered(p)
    \/ Report(p)

NextDrain ==
    \/ healedAt = -1 /\ CaptureSome
    \/ Heal
    \/ \E p \in SeqProcs : PushDrain(p)

SpecDrain ==
    /\ Init
    /\ [][NextDrain]_vars
    /\ \A p \in SeqProcs : WF_vars(PushDrain(p))

\* ---- specification: resolution of arbitrary destinations ----------------------------
\* destinations save_to_db may be given, and base urls an operator may pass
ResolveDests ==
    {<<"gql">>, <<"gql", ":">>, <<"gql", ":", "/", "foo">>,
     <<"otel", ":", "/", "v1", "/", "traces">>,
     <<"otel", ":", "/", "a", ":", "b">>, <<"otel">>,
     <<"other", ":", "/", "x">>}
ResolveBases ==
    {<<"http", ":", "/", "/", "x">>, <<"http", ":", "/", "/", "y", "/">>,
     <<"http", ":", "/", "/", "z", "/", "/">>, <<>>}

\* the table after save_to_db(dest, SpanDoc) on an empty table
InitResolve ==
    \E dest \in ResolveDests :
        LET blob == ToBlob(FALSE, SpanDoc)
        IN /\ requests = InsertRow({}, dest, blob, 1)
           /\ captured = <<[rowid |-> NextRowid({}), destination |-> dest,
                            request |-> blob]>>
           /\ pc = [p \in Procs |-> "idle"]
           /\ args = [p \in Procs |-> NoArgs]
           /\ rows = [p \in Procs |-> <<>>]
           /\ idx = [p \in Procs |-> 1]
           /\ failure = [p \in Procs |-> None]
           /\ processed = [p \in Procs |-> 0]
           /\ out = [p \in Procs |-> <<>>]
           /\ status = [p \in Procs |-> -1]
           /\ inflight = {}
           /\ acked = {}
           /\ removed = <<>>
           /\ tried = [p \in Procs |-> <<>>]
           /\ passes = 0
           /\ prevRest = [rest |-> <<>>, count |-> 0]
           /\ snapAt = [p \in Procs |-> 0]
           /\ srv = NoExchange
           /\ healedAt = -1

PushResolve(p) ==
    \/ \E g \in ResolveBases, o \in ResolveBases :
           NoPassRunning /\ Enumerate(p, g, o)
    \/ Forward(p)
    \/ \E code \in Codes : Respond(p, code)
    \/ \E reason \in Reasons : RaiseURLError(p, reason)
    \/ DeleteDelivered(p)
    \/ Report(p)

NextResolve == \E p \in SeqProcs : PushResolve(p)

SpecResolve == InitResolve /\ [][NextResolve]_vars

\* ---- properties ------------------------------------------------------------------
\* the row of captured[u] as the table holds it
RowOf(u) == [rowid |-> captured[u].rowid,
             destination |-> captured[u].destination,
             request |-> captured[u].request, h_uid |-> u]

\* the loop of the pass of p is over and nothing was captured since
PassOver(p) ==
    \/ pc[p] = "report"
    \/ /\ pc[p] \in {"succeeded", "halted", "crashed"}
       /\ Len(captured) = prevRest.count

\* the pass of p tried its first k rows in order, the first k - 1 got a
\* 2xx and the k-th failed
FailedAt(p, k) ==
    /\ k \in 1..Len(tried[p])
    /\ k <= Len(rows[p])
    /\ \A j \in 1..k : tried[p][j].h_uid = rows[p][j].h_uid
    /\ \A j \in 1..(k - 1) : tried[p][j].result = "2xx"
    /\ tried[p][k].result = "failed"

\* C1: when a pass delivers its first N rows with a 2xx and the delivery of
\* row N+1 fails, then at the end of the pass exactly those N rows have been
\* removed, processed = N, and the rows from N+1 onward are still in the
\* table, unchanged and in their order.
C1_PartialFailure ==
    \A p \in Procs : \A k \in 1..Len(tried[p]) :
        (PassOver(p) /\ FailedAt(p, k)) =>
            LET N == k - 1
            IN /\ processed[p] = N
               /\ OrderByRowidAsc(requests) = SubSeq(rows[p], N + 1, Len(rows[p]))
               /\ Len(removed) >= N
               /\ SubSeq(removed, Len(removed) - N + 1, Len(removed))
                      = Uids(SubSeq(rows[p], 1, N))

C1_Witness ==
    /\ pc[1] = "halted"
    /\ PassOver(1)
    /\ Len(rows[1]) = 3
    /\ FailedAt(1, 2)
    /\ processed[1] = 1

C3_NoSilentDrop ==
    /\ \A u \in 1..Len(captured) :
          \/ RowOf(u) \in requests
          \/ [h_uid |-> u, data |-> captured[u].request] \in acked
    /\ \A k \in 1..Len(removed) :
          [h_uid |-> removed[k], data |-> captured[removed[k]].request]
              \in acked
    /\ \A r \in requests : r.h_uid \in 1..Len(captured) /\ r = RowOf(r.h_uid)

C3_Witness ==
    /\ passes >= 2
    /\ Len(removed) >= 1
    /\ \E r \in requests : r.h_uid > 1 /\ r.rowid = 1
    /\ pc[1] = "halted"

\* C4: within a pass the attempts follow the enumeration, one row after the
\* other in strictly ascending rowid order; an attempt starts only when
\* every earlier row got a 2xx and was deleted; at most one request is in
\* flight.
C4_OneAtATimeInOrder ==
    /\ Cardinality(inflight) <= 1
    /\ \A p \in Procs :
          /\ Len(tried[p]) <= Len(rows[p])
          /\ \A k \in 1..Len(tried[p]) :
                /\ tried[p][k].h_uid = rows[p][k].h_uid
                /\ \A j \in 1..(k - 1) :
                      /\ rows[p][j].rowid < rows[p][k].rowid
                      /\ tried[p][j].result = "2xx"
                      /\ rows[p][j] \notin requests
          /\ (pc[p] = "urlopen") <=> (\E req \in inflight : req.proc = p)
          /\ \A req \in inflight :
                req.proc = p => /\ tried[p] # <<>>
                                /\ req.h_uid = Last(tried[p]).h_uid
                                /\ Last(tried[p]).result = "pending"

C4_Witness ==
    /\ pc[1] = "urlopen"
    /\ Len(tried[1]) = 3
    /\ Cardinality(inflight) = 1

\* C5: before any replay, the enumeration returns exactly the captured
\* entries, once each, in capture order, with the destination and bytes
\* stored for each; the first pass enumerates just that.
C5_EnumerateInCaptureOrder ==
    /\ passes = 0 =>
          OrderByRowidAsc(requests) = [u \in 1..Len(captured) |-> RowOf(u)]
    /\ \A p \in Procs :
          (passes = 1 /\ pc[p] \in Running) =>
              rows[p] = [u \in 1..Len(captured) |-> RowOf(u)]

C5_Witness ==
    /\ passes = 1
    /\ pc[1] = "loop"
    /\ idx[1] = 1
    /\ Len(rows[1]) = 3
    /\ rows[1][1].destination = <<"gql">>
    /\ rows[1][2].destination # <<"gql">>

\* C6: rowids are strictly increasing in append order over the whole life
\* of the table and never reused: each inserted row got a rowid greater than
\* every rowid assigned before it.
C6_IdsNeverReused ==
    \A i, j \in 1..Len(captured) :
        i < j => captured[i].rowid < captured[j].rowid

\* C7: a pass that follows a halted pass enumerates the failing entry
\* first, then the other entries the halted pass left, in their order, then
\* the entries captured since, in capture order; its attempts follow that
\* enumeration, so its first attempt is the entry that failed.
C7_Resumable ==
    \A p \in Procs :
        (pc[p] \in Running /\ prevRest.rest # <<>>) =>
            /\ rows[p] # <<>>
            /\ Uids(rows[p]) = prevRest.rest \o
                  [k \in 1..(Len(captured) - prevRest.count) |->
                      prevRest.count + k]
            /\ \A k \in 1..Len(rows[p]) : rows[p][k] = RowOf(rows[p][k].h_uid)
            /\ Len(tried[p]) <= Len(rows[p])
            /\ \A k \in 1..Len(tried[p]) :
                  /\ tried[p][k].h_uid = rows[p][k].h_uid
                  /\ k < Len(tried[p]) => tried[p][k].result = "2xx"

C7_Witness ==
    /\ pc[1] = "urlopen"
    /\ Len(prevRest.rest) = 2
    /\ Len(rows[1]) = 3
    /\ Len(tried[1]) = 3
    /\ tried[1][1].h_uid = prevRest.rest[1]
    /\ tried[1][3].h_uid > prevRest.count

\* the category of the row has no configured base url
Unroutable(p, row) ==
    ~ Truthy(EndpointsGet(args[p], Partition(row.destination, ":")[1]))

\* the process printed its processed count
Reported(p) ==
    \E k \in 1..Len(out[p]) :
        /\ out[p][k].stream = "stdout"
        /\ out[p][k].kind = "pushed"
        /\ out[p][k].n = processed[p]

\* C8: a pass that comes to a row whose category has no configured base
\* url (none, or an empty one) records a failure naming that row, reports
\* the processed count and ends halted, the row and all later rows queued.
C8_UnroutableHalts ==
    \A p \in Procs :
        (/\ pc[p] \in {"succeeded", "halted", "crashed"}
         /\ PassOver(p)
         /\ idx[p] <= Len(rows[p])
         /\ Unroutable(p, rows[p][idx[p]])) =>
            /\ pc[p] = "halted"
            /\ failure[p] # None
            /\ failure[p][1] = rows[p][idx[p]].rowid
            /\ Reported(p)
            /\ \A k \in idx[p]..Len(rows[p]) : rows[p][k] \in requests

\* the outcome Succeeded: normal return, no failure, every row of the
\* enumeration delivered and removed
Succeeded(p) ==
    /\ pc[p] = "succeeded"
    /\ status[p] = 0
    /\ failure[p] = None
    /\ Len(tried[p]) = Len(rows[p])
    /\ \A k \in 1..Len(rows[p]) :
          /\ tried[p][k] = [h_uid |-> rows[p][k].h_uid, result |-> "2xx"]
          /\ rows[p][k] \notin requests

\* the outcome Halted: exit status 1, one failure printed, naming the first
\* row of the enumeration that was not removed
Halted(p) ==
    /\ pc[p] = "halted"
    /\ status[p] = 1
    /\ failure[p] # None
    /\ Cardinality({k \in 1..Len(out[p]) : out[p][k].kind = "failed"}) = 1
    /\ \E k \in 1..Len(rows[p]) :
          /\ rows[p][k] \in requests
          /\ \A j \in 1..(k - 1) : rows[p][j] \notin requests
          /\ failure[p][1] = rows[p][k].rowid
          /\ \E m \in 1..Len(out[p]) :
                out[p][m].kind = "failed" /\ out[p][m].rowid = rows[p][k].rowid

\* C9: a pass that has ended has reported its processed count and is
\* either Succeeded or Halted, and Halted exactly when an attempt failed.
C9_TwoOutcomes ==
    \A p \in Procs :
        pc[p] \in {"succeeded", "halted", "crashed"} =>
            /\ Reported(p)
            /\ Succeeded(p) \/ Halted(p)
            /\ Halted(p) <=>
                  \E k \in 1..Len(tried[p]) : tried[p][k].result = "failed"

\* C10: a pass that enumerated an empty table makes no attempt and no
\* deletion, reports 0 and returns normally, and leaves the table empty,
\* however often it is run.
C10_EmptyPass ==
    /\ [](\A p \in Procs :
            (pc[p] # "idle" /\ rows[p] = <<>>) =>
                /\ tried[p] = <<>>
                /\ processed[p] = 0
                /\ failure[p] = None
                /\ pc[p] \in {"loop", "report", "succeeded"}
                /\ pc[p] \in Running => requests = {}
                /\ pc[p] = "succeeded" =>
                      /\ status[p] = 0
                      /\ out[p] = <<[stream |-> "stdout", kind |-> "pushed",
                                     n |-> 0, rowid |-> 0, reason |-> <<>>]>>)
    /\ [][\A p \in Procs :
            (pc[p] \in Running /\ rows[p] = <<>>) =>
                /\ requests' = requests
                /\ removed' = removed
                /\ acked' = acked
                /\ inflight' = inflight]_vars

C10_Witness ==
    /\ passes >= 2
    /\ captured = <<>>
    /\ pc[1] = "succeeded"
    /\ rows[1] = <<>>
    /\ out[1] # <<>>

\* position of the first ':' of dest, Len(dest) + 1 when it has none
FirstColon(dest) ==
    CHOOSE k \in 1..(Len(dest) + 1) :
        /\ \A j \in 1..(k - 1) : dest[j] # ":"
        /\ k <= Len(dest) => dest[k] = ":"

\* the base url configured for a category, <<>> when there is none
BaseOf(p, cat) ==
    IF cat = <<"gql">> THEN args[p].gql
    ELSE IF cat = <<"otel">> THEN args[p].otel
    ELSE <<>>

\* url is base without its trailing slashes, followed by suf
StrippedThen(base, suf, url) ==
    \E n \in 0..Len(base) :
        /\ \A j \in (n + 1)..Len(base) : base[j] = "/"
        /\ n > 0 => base[n] # "/"
        /\ url = SubSeq(base, 1, n) \o suf

\* C11: the url of a request is resolved from the row's destination split
\* at its first ':': with a non-empty suffix it is the category's base url
\* without trailing slashes followed by the suffix, later ':' included; with
\* an empty suffix it is the base url unchanged; and a row whose category
\* has a base url is given a url.
C11_Resolution ==
    \A p \in Procs :
        (pc[p] \in {"urlopen", "crashed"} /\ idx[p] <= Len(rows[p])) =>
            LET dest == rows[p][idx[p]].destination
                k == FirstColon(dest)
                cat == SubSeq(dest, 1, k - 1)
                suf == SubSeq(dest, k + 1, Len(dest))
                base == BaseOf(p, cat)
            IN base # <<>> =>
                  /\ pc[p] = "urlopen"
                  /\ \E req \in inflight :
                        /\ req.proc = p
                        /\ IF suf # <<>>
                           THEN StrippedThen(base, suf, req.url)
                           ELSE req.url = base

C11_Witness ==
    /\ pc[1] = "urlopen"
    /\ rows[1][1].destination = <<"otel", ":", "/", "a", ":", "b">>
    /\ args[1].otel = <<"http", ":", "/", "/", "z", "/", "/">>
    /\ \E req \in inflight :
          req.url = <<"http", ":", "/", "/", "z", "/", "a", ":", "b">>

\* C12: a capture appends exactly one row, after every row of the table,
\* and changes nothing else: the rows already stored stay as they are, no
\* request is started and nothing is deleted; a row leaves the table only
\* in the delete step of a pass.
C12_CaptureFrame ==
    /\ [][captured' # captured =>
            /\ Len(captured') = Len(captured) + 1
            /\ SubSeq(captured', 1, Len(captured)) = captured
            /\ \E r \in requests' :
                  /\ r \notin requests
                  /\ requests' = requests \cup {r}
                  /\ r.h_uid = Len(captured')
                  /\ r = [rowid |-> Last(captured').rowid,
                          destination |-> Last(captured').destination,
                          request |-> Last(captured').request,
                          h_uid |-> Len(captured')]
                  /\ \A q \in requests : q.rowid < r.rowid
            /\ UNCHANGED <<inflight, pc, rows, idx, tried, removed, acked,
                           processed, failure, out, status>>]_vars
    /\ [][(\E r \in requests : r \notin requests') =>
            /\ captured' = captured
            /\ \E p \in Procs : pc[p] = "delete" /\ pc'[p] = "loop"]_vars
    /\ [][requests' # requests =>
            \/ captured' # captured
            \/ \E p \in Procs : pc[p] = "delete"]_vars

C12_Witness ==
    /\ pc[1] = "urlopen"
    /\ idx[1] = 2
    /\ Len(rows[1]) = 2
    /\ Len(captured) = 3
    /\ snapAt[1] = 2
    /\ Cardinality(requests) = 2

\* the query of a GraphQL body starts with 'mutation ', in any case
MutationText(body) ==
    \E k \in 1..Len(body) :
        /\ body[k][1] = "query"
        /\ \A j \in 1..(k - 1) : body[j][1] # "query"
        /\ Len(body[k][2]) >= 2
        /\ body[k][2][1] \in {"mutation", "Mutation", "MUTATION"}
        /\ body[k][2][2] = " "

\* the last exchange is a POST that a capture handler had to store
HadToStore(x) ==
    /\ x.method = "POST"
    /\ x.json_ok
    /\ \/ x.path # <<"public">>
       \/ MutationText(x.body)

\* C13: a handler that had to store its payload answers with success only
\* when the row is committed: after a 2xx answer the table holds the row of
\* that request; when the insert or commit fails the answer is not a success.
C13_CommitBeforeReply ==
    (HadToStore(srv) /\ srv.status \div 100 = 2) =>
        /\ srv.stored = Len(captured)
        /\ srv.stored >= 1
        /\ RowOf(srv.stored) \in requests
        /\ captured[srv.stored].request = JsonDumps(srv.body)

C13_Witness ==
    /\ HadToStore(srv)
    /\ srv.status = 500
    /\ srv.path = <<"otel", "v1", "traces">>
    /\ srv.cors_origin = <<"*">>
    /\ Len(captured) = 1

\* C14: a pass ends, whatever is captured while it runs: it keeps the rows
\* it enumerated, which are rows captured before it started, calls urlopen
\* at most once for each of them, in their order, and comes to its end.
C14_PassTerminates ==
    /\ [](\A p \in Procs :
            /\ Len(tried[p]) <= Len(rows[p])
            /\ \A k \in 1..Len(tried[p]) :
                  tried[p][k].h_uid = rows[p][k].h_uid
            /\ \A k \in 1..Len(rows[p]) : rows[p][k].h_uid <= snapAt[p]
            /\ \A j, k \in 1..Len(rows[p]) :
                  j < k => rows[p][j].h_uid < rows[p][k].h_uid)
    /\ [][\A p \in Procs :
            (pc[p] \in Running /\ pc'[p] \in Running) =>
                rows'[p] = rows[p]]_vars
    /\ \A p \in SeqProcs : (pc[p] \in Running) ~> (pc[p] \in Ended)

C14_Witness ==
    /\ pc[1] = "succeeded"
    /\ Len(rows[1]) = 2
    /\ Len(tried[1]) = 2
    /\ Len(captured) = 3
    /\ snapAt[1] = 2
    /\ Cardinality(requests) = 1

\* C15: a pass works on the rows it enumerated: an entry captured after the
\* enumeration is not sent and not deleted by that pass, it is in the table
\* behind every entry captured before it, and every row a pass deletes is a
\* row of its enumeration.
C15_SnapshotPass ==
    /\ [](\A p \in SeqProcs :
            pc[p] # "idle" =>
                \A u \in (snapAt[p] + 1)..Len(captured) :
                    /\ RowOf(u) \in requests
                    /\ \A k \in 1..Len(tried[p]) : tried[p][k].h_uid # u
                    /\ \A k \in 1..Len(rows[p]) : rows[p][k].h_uid # u
                    /\ \A k \in 1..Len(removed) : removed[k] # u
                    /\ \A q \in requests :
                          q.h_uid < u => q.rowid < captured[u].rowid)
    /\ [][\A r \in requests :
            r \notin requests' =>
                \E p \in SeqProcs :
                    /\ pc[p] = "delete"
                    /\ rows[p][idx[p]] = r
                    /\ [h_uid |-> r.h_uid, data |-> r.request] \in acked]_vars

C15_Witness ==
    /\ pc[1] = "halted"
    /\ Len(rows[1]) = 2
    /\ processed[1] = 1
    /\ snapAt[1] = 2
    /\ Len(captured) = 3
    /\ Cardinality(requests) = 2
    /\ tried[1][2].result = "failed"

\* C16: with two passes and captures interleaved step by step, a row
\* leaves the table only when a 2xx was received for a delivery of that very
\* entry; a delete by a rowid of a pass's enumeration never removes another,
\* later captured entry that holds the same rowid.
C16_ConcurrentNoSilentDrop ==
    \A u \in 1..Len(captured) :
        \/ RowOf(u) \in requests
        \/ [h_uid |-> u, data |-> captured[u].request] \in acked

\* C17: once captures have stopped and every delivery attempt gets a 2xx,
\* a pass started from then on ends Succeeded with the table empty, and no
\* entry is removed twice.
C17_DrainsOnceHealthy ==
    /\ \A p \in SeqProcs :
          (/\ healedAt >= 0
           /\ passes > healedAt
           /\ pc[p] \in {"succeeded", "halted", "crashed"}) =>
              /\ pc[p] = "succeeded"
              /\ requests = {}
    /\ \A j, k \in 1..Len(removed) : j # k => removed[j] # removed[k]

\* the last exchange is a POST to a capture route that the middleware let
\* through
GraphqlPost(x) ==
    x.method = "POST" /\ x.path = <<"public">> /\ x.status # 400

OtlpPost(x) ==
    /\ x.method = "POST"
    /\ Len(x.path) = 3
    /\ x.path[1] = "otel"
    /\ x.path[2] = "v1"
    /\ x.status # 400

\* the write of the last exchange failed
WriteFailed(x) == x.json_ok /\ x.status = 500

\* the category of a destination: the text before its first ':'
CategoryOf(destination) ==
    IF FirstColon(destination) = 0 THEN destination
    ELSE SubSeq(destination, 1, FirstColon(destination) - 1)

\* what both readings of C18 say of the GraphQL handler and of the table
GraphqlCaptures ==
    (GraphqlPost(srv) /\ srv.json_ok /\ ~ WriteFailed(srv)) =>
        /\ srv.status = 200
        /\ (srv.stored >= 1) <=> MutationText(srv.body)
        /\ srv.stored >= 1 =>
              /\ srv.stored = Len(captured)
              /\ RowOf(srv.stored) \in requests
              /\ captured[srv.stored].destination = <<"gql">>
              /\ captured[srv.stored].request = JsonDumps(srv.body)

OtlpStoredAs(x) ==
    /\ x.stored >= 1
    /\ x.stored = Len(captured)
    /\ RowOf(x.stored) \in requests
    /\ captured[x.stored].destination =
           <<"otel", ":", "/", "v1", "/", x.path[3]>>
    /\ captured[x.stored].request = JsonDumps(x.body)

StoredCategories ==
    \A r \in requests : CategoryOf(r.destination) \in {<<"gql">>, <<"otel">>}

\* C18: the GraphQL handler captures a request exactly when its query starts
\* with 'mutation ' in any case, under 'gql'; any other GraphQL request is
\* answered and stores nothing; the OTLP handler captures every request,
\* under 'otel:/v1/<signal>'; every row of the table has category gql or otel.
C18_HandlersCapture ==
    /\ GraphqlCaptures
    /\ (OtlpPost(srv) /\ ~ WriteFailed(srv)) => OtlpStoredAs(srv)
    /\ StoredCategories

\* C18 as amended: the OTLP handler captures every request whose body parses
\* as JSON; a request whose body does not parse is answered 500 and stores
\* nothing.
C18_HandlersCaptureParsed ==
    /\ GraphqlCaptures
    /\ (OtlpPost(srv) /\ ~ WriteFailed(srv)) =>
          IF srv.json_ok
          THEN srv.status = 200 /\ OtlpStoredAs(srv)
          ELSE srv.status = 500 /\ srv.stored = 0
    /\ StoredCategories

C18_Witness ==
    /\ OtlpPost(srv)
    /\ ~ srv.json_ok
    /\ srv.status = 500
    /\ srv.stored = 0
    /\ \E u, w \in 1..Len(captured) :
          /\ captured[u].destination = <<"gql">>
          /\ captured[u].request = JsonDumps(UpperMutationDoc)
          /\ captured[w].destination =
                 <<"otel", ":", "/", "v1", "/", "logs">>

\* the Origin header is one of the items of CORS_ORIGIN between its ';'
OriginListed(x) ==
    \E j, k \in 1..(Len(x.cors_origin) + 1) :
        /\ j <= k
        /\ j = 1 \/ x.cors_origin[j - 1] = ";"
        /\ k = Len(x.cors_origin) + 1 \/ x.cors_origin[k] = ";"
        /\ \A m \in j..(k - 1) : x.cors_origin[m] # ";"
        /\ SubSeq(x.cors_origin, j, k - 1) = x.origin

\* the middleware rejects the request: the list is not the wildcard and the
\* Origin is absent or not in it
OriginRejected(x) == x.cors_origin # <<"*">> /\ ~ OriginListed(x)

\* OPTIONS with Origin and Access-Control-Request-Method
Preflight(x) == x.method = "OPTIONS" /\ x.origin # None /\ x.acrm # None

\* an exchange has just been completed and left the table as it was
StoreUntouched == UNCHANGED <<requests, captured>> /\ srv'.stored = 0

\* C19: a request the middleware rejects is answered 400 and a CORS
\* preflight is answered 200, both with the table unchanged.
C19_CorsNeverCaptures ==
    [][srv' # srv =>
          /\ OriginRejected(srv') => (srv'.status = 400 /\ StoreUntouched)
          /\ Preflight(srv') => (srv'.status = 200 /\ StoreUntouched)]_vars

\* C19 as amended: a CORS preflight whose origin is not rejected is
\* answered 200; one whose origin is rejected is answered 400 like any other
\* request; the table is unchanged in both cases.
C19_CorsNeverCapturesChecked ==
    [][srv' # srv =>
          /\ OriginRejected(srv') => (srv'.status = 400 /\ StoreUntouched)
          /\ (Preflight(srv') /\ ~ OriginRejected(srv')) =>
                (srv'.status = 200 /\ StoreUntouched)]_vars

C19_Witness ==
    /\ Preflight(srv)
    /\ srv.origin = <<"a">>
    /\ srv.cors_origin = <<"a", ";", "b">>
    /\ srv.path = <<"public">>
    /\ srv.status = 200
    /\ srv.stored = 0
    /\ Len(captured) >= 1

====
